---- MODULE Spec2Model ----
(***************************************************************************)
(* Model of kanji_worksheet/make_worksheet.py: the extract / decode /      *)
(* inline / render / open pipeline of main(), with the Anki collection,    *)
(* the media directory, the clock and the command line as inputs.          *)
(*                                                                         *)
(* Strings are sequences of tokens (TLA+ strings).  A token is a piece of  *)
(* text that the program never looks inside: a field value's text, a file  *)
(* name, one base64 character, the field separator, or a piece of the      *)
(* stroke diagram's <img> markup.                                          *)
(***************************************************************************)
EXTENDS Integers, Sequences, FiniteSets

\* ------------------------------------------------------------------ bounds
MaxModels == 2
MaxRevs == 2
MaxDays == 2
NowHours == 111

\* ---------------------------------------------------------------- constants
FIELD_SEP == "\\x1f"
TargetName == "NihongoShark.com: Kanji"
StrokeKey == "strokeDiagram"
DataPrefix == "data:image/png;base64,"
ImgOpenSq == "<img src='"
ImgCloseSq == "'/>"
ImgOpenDq == "<img src=\""
ImgCloseDq == "\"/>"
MediaDir == "collection.media"
ForgottenEase == 1
MAXBINSIZE == 57

\* --------------------------------------------------------- sequence helpers
Range(s) == {s[i] : i \in DOMAIN s}

Min(a, b) == IF a <= b THEN a ELSE b

Tail2(s, n) == SubSeq(s, n + 1, Len(s))

\* All orderings of the finite set S as sequences without repetition.
Orderings(S) == {s \in [1..Cardinality(S) -> S] : Range(s) = S}

\* ------------------------------------------------- the clock (lines 97-101)
HourMs == 3600 * 1000

\* time.time() in half milliseconds, a float's sub-millisecond part kept.
NowBase == NowHours * HourMs

\* round(): Python 2 rounds half away from zero.  x is in half units.
RoundHalf(x) == IF x >= 0 THEN (x + 1) \div 2 ELSE 0 - ((1 - x) \div 2)

\* The window of days full days, without the first day's allowance.
HoursNoAllowance(days) == days * 24

Hours(days) == (days - 1) * 24 + 16

Seconds(days) == Hours(days) * 60 * 60

\* int(round((time.time() - seconds) * 1000)), the time given in half ms.
LastTimeMs(nowHalf, days) == RoundHalf(nowHalf - Seconds(days) * 2000)

\* ------------------------------------------- Model Resolver (lines 27-36)
\* models.items(): the mapping in iteration order, a sequence of models.
\* The first model of the mapping, whatever its name.
FirstModel(ms) == [found |-> ms # <<>>, model |-> ms[1]]

RECURSIVE FindModel(_)
FindModel(ms) ==
    IF ms = <<>> THEN [found |-> FALSE, model |-> [id |-> 0, name |-> "", flds |-> <<>>]]
    ELSE IF Head(ms).name = TargetName THEN [found |-> TRUE, model |-> Head(ms)]
    ELSE FindModel(Tail(ms))

\* sorted(flds, key=itemgetter('ord')): a stable insertion sort.
RECURSIVE InsertByOrd(_, _)
InsertByOrd(f, sorted) ==
    IF sorted = <<>> THEN <<f>>
    ELSE IF f.ord < Head(sorted).ord THEN <<f>> \o sorted
    ELSE <<Head(sorted)>> \o InsertByOrd(f, Tail(sorted))

RECURSIVE SortedByOrd(_)
SortedByOrd(flds) ==
    IF flds = <<>> THEN <<>>
    ELSE InsertByOrd(flds[Len(flds)], SortedByOrd(SubSeq(flds, 1, Len(flds) - 1)))

FieldNames(model) == [i \in DOMAIN model.flds |-> SortedByOrd(model.flds)[i].name]

\* -------------------------------------------- Note Selector (lines 38-55)
\* The time filter alone, the outcome filter left out.
MatchingRevsAnyEase(revs, last_time_ms, only_forgotten) ==
    {r \in revs : r.id >= last_time_ms}

\* q = revlog.filter(id >= last_time_ms) [.filter(ease == 1)]
MatchingRevs(revs, last_time_ms, only_forgotten) ==
    {r \in revs : r.id >= last_time_ms /\ (only_forgotten => r.ease = ForgottenEase)}

\* The card ids with the bound taken as exclusive.
CardIdsExclusive(revs, last_time_ms, only_forgotten) ==
    {r.cid : r \in {q \in revs : q.id > last_time_ms
                                 /\ (only_forgotten => q.ease = ForgottenEase)}}

\* card_ids = sorted(set(rev.cid for rev in revs))
CardIds(revs, last_time_ms, only_forgotten) ==
    {r.cid : r \in MatchingRevs(revs, last_time_ms, only_forgotten)}

\* An emptiness test that never fires.
NeverEmpty(card_ids) == card_ids # card_ids

\* if not card_ids: raise RuntimeError("No cards found in time window!")
IsEmptySelection(card_ids) == card_ids = {}

\* notes.filter(mid == model.id).filter(cards.id.in_(card_ids), notes.id == cards.nid)
\* The ORM returns each note entity once, however many cards it joins to.
NotesQuery(allNotes, allCards, mid, bounded, card_ids) ==
    {n \in allNotes :
        /\ n.mid = mid
        /\ bounded => \E c \in allCards : c.id \in card_ids /\ n.id = c.nid}

\* -------------------------------------------- Field Decoder (lines 57-61)
\* str.split(FIELD_SEP): the pieces between separators, empty pieces kept.
RECURSIVE SplitFrom(_, _)
SplitFrom(raw, cur) ==
    IF raw = <<>> THEN <<cur>>
    ELSE IF Head(raw) = FIELD_SEP THEN <<cur>> \o SplitFrom(Tail(raw), <<>>)
    ELSE SplitFrom(Tail(raw), Append(cur, Head(raw)))

Split(raw) == SplitFrom(raw, <<>>)

\* A pairing that stops one short.
ZipDropLast(names, values) ==
    [i \in 1..(Min(Len(names), Len(values)) - 1) |-> [k |-> names[i], v |-> values[i]]]

\* zip(): pairs up to the shorter of the two sequences.
Zip(names, values) ==
    [i \in 1..Min(Len(names), Len(values)) |-> [k |-> names[i], v |-> values[i]]]

\* An OrderedDict is a sequence of [k, v] entries with distinct keys.
HasKey(od, key) == \E i \in DOMAIN od : od[i].k = key

GetItem(od, key) == od[CHOOSE i \in DOMAIN od : od[i].k = key].v

SetItem(od, key, val) ==
    IF HasKey(od, key)
    THEN [i \in DOMAIN od |-> IF od[i].k = key THEN [k |-> key, v |-> val] ELSE od[i]]
    ELSE Append(od, [k |-> key, v |-> val])

RECURSIVE OrderedDict(_)
OrderedDict(pairs) ==
    IF pairs = <<>> THEN <<>>
    ELSE SetItem(OrderedDict(SubSeq(pairs, 1, Len(pairs) - 1)),
                 pairs[Len(pairs)].k, pairs[Len(pairs)].v)

Decode(field_names, note) == OrderedDict(Zip(field_names, Split(note.flds)))

\* -------------------------------------------- Image Inliner (lines 66-74)
\* str.encode('base64'): base64.encodestring, one line per MAXBINSIZE bytes,
\* each line ended by a newline.  Bytes are 0..255, characters are tokens.
B64Alphabet ==
    << "A", "B", "C", "D", "E", "F", "G", "H", "I", "J", "K", "L", "M", "N", "O", "P",
       "Q", "R", "S", "T", "U", "V", "W", "X", "Y", "Z", "a", "b", "c", "d", "e", "f",
       "g", "h", "i", "j", "k", "l", "m", "n", "o", "p", "q", "r", "s", "t", "u", "v",
       "w", "x", "y", "z", "0", "1", "2", "3", "4", "5", "6", "7", "8", "9", "+", "/" >>

\* One group of 1..3 bytes as 4 characters, padded with "=".
EncodeGroup(bs) ==
    LET n == Len(bs)
        b1 == bs[1]
        b2 == IF n >= 2 THEN bs[2] ELSE 0
        b3 == IF n >= 3 THEN bs[3] ELSE 0
    IN << B64Alphabet[(b1 \div 4) + 1],
          B64Alphabet[((b1 % 4) * 16 + (b2 \div 16)) + 1],
          IF n >= 2 THEN B64Alphabet[((b2 % 16) * 4 + (b3 \div 64)) + 1] ELSE "=",
          IF n >= 3 THEN B64Alphabet[(b3 % 64) + 1] ELSE "=" >>

RECURSIVE EncodeGroups(_)
EncodeGroups(bs) ==
    IF bs = <<>> THEN <<>>
    ELSE EncodeGroup(SubSeq(bs, 1, Min(3, Len(bs)))) \o EncodeGroups(Tail2(bs, Min(3, Len(bs))))

RECURSIVE EncodeString(_)
EncodeString(bs) ==
    IF bs = <<>> THEN <<>>
    ELSE EncodeGroups(SubSeq(bs, 1, Min(MAXBINSIZE, Len(bs)))) \o <<"\n">>
         \o EncodeString(Tail2(bs, Min(MAXBINSIZE, Len(bs))))

\* The serializer's escaping of an attribute value, and the parser's inverse.
EscapeAttr(tok) ==
    CASE tok = "\n" -> "&#10;"
      [] tok = "&" -> "&amp;"
      [] tok = "<" -> "&lt;"
      [] tok = "\"" -> "&quot;"
      [] OTHER -> tok

UnescapeAttr(tok) ==
    CASE tok = "&#10;" -> "\n"
      [] tok = "&amp;" -> "&"
      [] tok = "&lt;" -> "<"
      [] tok = "&quot;" -> "\""
      [] OTHER -> tok

ImgNoSrc == "<img/>"

Markup == {ImgOpenSq, ImgCloseSq, ImgOpenDq, ImgCloseDq, ImgNoSrc}

\* etree.fromstring(value) and img.get('src'): the value is well-formed when it
\* is one img element; src is the attribute's value, absent from <img/>.
fromstring(value) ==
    LET n == Len(value)
        inner == SubSeq(value, 2, n - 1)
    IN IF value = <<ImgNoSrc>> THEN [ok |-> TRUE, hasSrc |-> FALSE, src |-> <<>>]
       ELSE IF /\ n >= 2
               /\ \/ value[1] = ImgOpenSq /\ value[n] = ImgCloseSq
                  \/ value[1] = ImgOpenDq /\ value[n] = ImgCloseDq
               /\ \A i \in DOMAIN inner : inner[i] \notin Markup
            THEN [ok |-> TRUE, hasSrc |-> TRUE,
                  src |-> [i \in DOMAIN inner |-> UnescapeAttr(inner[i])]]
            ELSE [ok |-> FALSE, hasSrc |-> FALSE, src |-> <<>>]

\* img.set('src', uri); etree.tostring(img): double quotes, value escaped.
tostring(src) ==
    <<ImgOpenDq>> \o [i \in DOMAIN src |-> EscapeAttr(src[i])] \o <<ImgCloseDq>>

\* os.path.join(media_dir, basename)
PathJoin(dir, basename) == <<dir, "/">> \o basename

WaterPath == PathJoin(MediaDir, <<"water.png">>)

FirePath == PathJoin(MediaDir, <<"fire.png">>)

\* The bytes of the files the media directory can hold.
FileData(fn) ==
    IF fn = WaterPath THEN <<137, 80>>
    ELSE IF fn = FirePath THEN <<255, 216, 255, 224>>
    ELSE <<>>

\* A read that takes a missing file for an empty one.
ReadFileLenient(files, fn) ==
    [ok |-> TRUE, data |-> IF fn \in files THEN FileData(fn) ELSE <<>>]

\* open(fn) and f.read(): IOError when the file does not exist.
ReadFile(files, fn) ==
    [ok |-> fn \in files, data |-> IF fn \in files THEN FileData(fn) ELSE <<>>]

\* One iteration of the loop of inline_data_images on one field map.
InlineSteps(od, files) ==
    IF ~HasKey(od, StrokeKey) THEN [err |-> "KeyError", od |-> od]
    ELSE LET img == fromstring(GetItem(od, StrokeKey))
             f == ReadFile(files, PathJoin(MediaDir, img.src))
         IN IF ~img.ok THEN [err |-> "XMLSyntaxError", od |-> od]
            ELSE IF ~img.hasSrc THEN [err |-> "AttributeError", od |-> od]
            ELSE IF ~f.ok THEN [err |-> "IOError", od |-> od]
            ELSE [err |-> "none",
                  od |-> SetItem(od, StrokeKey,
                                 tostring(<<DataPrefix>> \o EncodeString(f.data)))]

\* The skip-and-continue policy: a missing file leaves the note as it is.
InlineOneSkipMissing(od, files) ==
    IF InlineSteps(od, files).err = "IOError"
    THEN [err |-> "none", od |-> od]
    ELSE InlineSteps(od, files)

InlineOne(od, files) == InlineSteps(od, files)

\* ---------------------------------------- Worksheet Renderer (lines 110-119)
\* template.render(notes=note_fields): the document made from the field maps.
Render(note_fields) == [template |-> "worksheet.html", notes |-> note_fields]

\* The file at args.output before the run.
OldFile == [template |-> "previous worksheet", notes |-> <<>>]

\* subprocess.call(['open', path]): a status, or OSError when the command
\* cannot be executed.
ViewerOutcomes == {"zero", "nonzero", "oserror"}

SubprocessCall(outcome) ==
    [raised |-> outcome = "oserror", status |-> IF outcome = "zero" THEN 0 ELSE 1]

\* ------------------------------------------------------------- the inputs
\* The collection: models (col.models), notes, cards, revlog.
KanjiFields ==
    { [name |-> "kanji", ord |-> 0],
      [name |-> StrokeKey, ord |-> 1],
      [name |-> "meaning", ord |-> 2] }

KanjiModels == {[id |-> 1, name |-> TargetName, flds |-> p] : p \in Orderings(KanjiFields)}

BasicModel ==
    [id |-> 2, name |-> "Basic",
     flds |-> <<[name |-> "Front", ord |-> 0], [name |-> "Back", ord |-> 1]>>]

ClozeModel ==
    [id |-> 3, name |-> "Cloze",
     flds |-> <<[name |-> "Extra", ord |-> 1], [name |-> "Text", ord |-> 0]>>]

OtherModels == {BasicModel, ClozeModel}

\* Every mapping of at most MaxModels models with distinct ids, in each order.
ModelMappings ==
    {ms \in UNION {[1..n -> KanjiModels \cup OtherModels] : n \in 1..MaxModels} :
        \A i, j \in DOMAIN ms : i # j => ms[i].id # ms[j].id}

\* The mappings of the runs that vary the selection: the target model second,
\* its fields stored out of order; and a collection without the target model.
PlainMappings ==
    { << BasicModel,
         [id |-> 1, name |-> TargetName,
          flds |-> << [name |-> "meaning", ord |-> 2],
                      [name |-> StrokeKey, ord |-> 1],
                      [name |-> "kanji", ord |-> 0] >>] >>,
      << BasicModel >> }

Img(name) == <<ImgOpenSq, name, ImgCloseSq>>

\* note.flds of the first Kanji note: 3, 4, 2 and 1 values, a stroke diagram
\* that is no XML, one without a src.
RawFields ==
    { <<"K-water", FIELD_SEP>> \o Img("water.png") \o <<FIELD_SEP, "water">>,
      <<"K-water", FIELD_SEP>> \o Img("water.png") \o <<FIELD_SEP, "water", FIELD_SEP, "x">>,
      <<"K-water", FIELD_SEP>> \o Img("water.png"),
      <<"K-water">>,
      <<"K-water", FIELD_SEP, "no diagram", FIELD_SEP, "water">>,
      <<"K-water", FIELD_SEP, ImgNoSrc, FIELD_SEP>> }

Notes(raw1) ==
    { [id |-> 1, mid |-> 1, flds |-> raw1],
      [id |-> 2, mid |-> 1,
       flds |-> <<"K-fire", FIELD_SEP>> \o Img("fire.png") \o <<FIELD_SEP, "fire">>],
      [id |-> 3, mid |-> 2, flds |-> <<"front", FIELD_SEP, "back">>] }

\* Note 1 has two cards, notes 2 and 3 one each.
Cards ==
    { [id |-> 1, nid |-> 1], [id |-> 2, nid |-> 1],
      [id |-> 3, nid |-> 2], [id |-> 4, nid |-> 3] }

\* Review events around the edges of the one-day and two-day windows.
RevPool ==
    { [id |-> NowBase - 16 * HourMs - 1, cid |-> 1, ease |-> 1],
      [id |-> NowBase - 16 * HourMs, cid |-> 2, ease |-> 3],
      [id |-> NowBase - 40 * HourMs, cid |-> 3, ease |-> 1],
      [id |-> NowBase - 1, cid |-> 4, ease |-> 1],
      [id |-> NowBase - 2, cid |-> 3, ease |-> 1],
      [id |-> NowBase - 4, cid |-> 1, ease |-> 3] }

Revlogs == {r \in SUBSET RevPool : Cardinality(r) <= MaxRevs}

MediaFiles == {WaterPath, FirePath}

VARIABLES
    models, notes, revlog, media,      \* the collection and the media directory
    days, nowHalf, only_forgotten,     \* --days, time.time(), --forgotten
    pc, exit,                          \* position in main(), how the run ended
    last_time_ms, model, field_names, card_ids, rows, note_fields,
    idx,                               \* the inliner's loop position
    outFile, viewer,                   \* the file at args.output, the viewer launch
    pass, first_pass                   \* a second inliner run and the first's result

inputs == <<models, notes, revlog, media, days, nowHalf, only_forgotten>>

vars ==
    <<models, notes, revlog, media, days, nowHalf, only_forgotten, pc, exit,
      last_time_ms, model, field_names, card_ids, rows, note_fields, idx,
      outFile, viewer, pass, first_pass>>

\* The state before main() runs, the inputs not yet chosen.
Start ==
    /\ pc = "window" /\ exit = "running"
    /\ last_time_ms = 0
    /\ model = [id |-> 0, name |-> "", flds |-> <<>>]
    /\ field_names = <<>>
    /\ card_ids = {}
    /\ rows = <<>>
    /\ note_fields = <<>>
    /\ idx = 0
    /\ outFile = OldFile
    /\ viewer = "none"
    /\ pass = 1
    /\ first_pass = <<>>

\* Runs that vary the models mapping: every mapping, one review log.
InitSchema ==
    /\ models \in ModelMappings
    /\ notes \in {Notes(r) : r \in RawFields}
    /\ revlog = {r \in RevPool : r.id >= NowBase - 16 * HourMs /\ r.cid \in {2, 3}}
    /\ media = MediaFiles
    /\ days = 1
    /\ nowHalf = 2 * NowBase
    /\ only_forgotten \in BOOLEAN

\* Runs that vary the selection and the notes' content.
InitSelect ==
    /\ models \in PlainMappings
    /\ notes \in {Notes(r) : r \in RawFields}
    /\ revlog \in Revlogs
    /\ media \in SUBSET MediaFiles
    /\ days \in 1..MaxDays
    /\ nowHalf \in {2 * NowBase, 2 * NowBase + 1}
    /\ only_forgotten \in BOOLEAN

Init == Start /\ (InitSchema \/ InitSelect)

\* lines 97-101
ComputeWindow ==
    /\ pc = "window"
    /\ last_time_ms' = LastTimeMs(nowHalf, days)
    /\ pc' = "resolve"
    /\ UNCHANGED <<inputs, exit, model, field_names, card_ids, rows, note_fields, idx,
                   outFile, viewer, pass, first_pass>>

\* lines 27-36, and 106-107 when the model is not found
ResolveModel ==
    /\ pc = "resolve"
    /\ LET r == FindModel(models)
       IN IF r.found
          THEN /\ model' = r.model
               /\ field_names' = FieldNames(r.model)
               /\ pc' = "revlog"
               /\ exit' = exit
          ELSE /\ pc' = "exit"
               /\ exit' = "SchemaNotFound"
               /\ UNCHANGED <<model, field_names>>
    /\ UNCHANGED <<inputs, last_time_ms, card_ids, rows, note_fields, idx,
                   outFile, viewer, pass, first_pass>>

\* lines 40-49, and 106-107 when no card was reviewed
QueryRevlog ==
    /\ pc = "revlog"
    /\ card_ids' = CardIds(revlog, last_time_ms, only_forgotten)
    /\ IF IsEmptySelection(card_ids')
       THEN pc' = "exit" /\ exit' = "EmptySelection"
       ELSE pc' = "notes" /\ exit' = exit
    /\ UNCHANGED <<inputs, last_time_ms, model, field_names, rows, note_fields, idx,
                   outFile, viewer, pass, first_pass>>

\* lines 50-63: the query has no ORDER BY, the rows come in some order
QueryNotes ==
    /\ pc = "notes"
    /\ \E order \in Orderings(NotesQuery(notes, Cards, model.id, TRUE, card_ids)) :
          /\ rows' = order
          /\ note_fields' = [i \in DOMAIN order |-> Decode(field_names, order[i])]
    /\ idx' = 1
    /\ pc' = "inline"
    /\ UNCHANGED <<inputs, exit, last_time_ms, model, field_names, card_ids,
                   outFile, viewer, pass, first_pass>>

\* lines 67-74, one note; an exception ends the run
InlineNote ==
    /\ pc = "inline"
    /\ idx <= Len(note_fields)
    /\ LET r == InlineOne(note_fields[idx], media)
       IN IF r.err = "none"
          THEN /\ note_fields' = [note_fields EXCEPT ![idx] = r.od]
               /\ idx' = idx + 1
               /\ UNCHANGED <<pc, exit>>
          ELSE /\ pc' = "exit"
               /\ exit' = r.err
               /\ UNCHANGED <<note_fields, idx>>
    /\ UNCHANGED <<inputs, last_time_ms, model, field_names, card_ids, rows,
                   outFile, viewer, pass, first_pass>>

\* line 67: the loop is over
InlineDone ==
    /\ pc = "inline"
    /\ idx > Len(note_fields)
    /\ pc' = "render"
    /\ UNCHANGED <<inputs, exit, last_time_ms, model, field_names, card_ids, rows,
                   note_fields, idx, outFile, viewer, pass, first_pass>>

\* lines 110-118
RenderAndWrite ==
    /\ pc = "render"
    /\ outFile' = Render(note_fields)
    /\ pc' = "open"
    /\ UNCHANGED <<inputs, exit, last_time_ms, model, field_names, card_ids, rows,
                   note_fields, idx, viewer, pass, first_pass>>

\* line 119: the status is dropped, an OSError is not caught
OpenViewer ==
    /\ pc = "open"
    /\ \E outcome \in ViewerOutcomes :
          /\ viewer' = outcome
          /\ exit' = IF SubprocessCall(outcome).raised THEN "OSError" ELSE "ok"
    /\ pc' = "exit"
    /\ UNCHANGED <<inputs, last_time_ms, model, field_names, card_ids, rows,
                   note_fields, idx, outFile, pass, first_pass>>

Next ==
    \/ ComputeWindow
    \/ ResolveModel
    \/ QueryRevlog
    \/ QueryNotes
    \/ InlineNote
    \/ InlineDone
    \/ RenderAndWrite
    \/ OpenViewer

Spec == Init /\ [][Next]_vars

\* A caller that runs inline_data_images(note_fields, media_dir) a second time
\* on the field maps the first run left.
InlineAgain ==
    /\ pc = "render"
    /\ pass = 1
    /\ first_pass' = note_fields
    /\ pass' = 2
    /\ idx' = 1
    /\ pc' = "inline"
    /\ UNCHANGED <<inputs, exit, last_time_ms, model, field_names, card_ids, rows,
                   note_fields, outFile, viewer>>

SecondRunDone ==
    /\ pc = "render"
    /\ pass = 2
    /\ pc' = "exit"
    /\ exit' = "ok"
    /\ UNCHANGED <<inputs, last_time_ms, model, field_names, card_ids, rows,
                   note_fields, idx, outFile, viewer, pass, first_pass>>

NextTwice ==
    \/ ComputeWindow
    \/ ResolveModel
    \/ QueryRevlog
    \/ QueryNotes
    \/ InlineNote
    \/ InlineDone
    \/ InlineAgain
    \/ SecondRunDone

SpecTwice == Init /\ [][NextTwice]_vars

\* ------------------------------------------------------------ the claims
TargetExists == \E i \in DOMAIN models : models[i].name = TargetName

TargetModel == models[CHOOSE i \in DOMAIN models : models[i].name = TargetName]

\* get_notes_for_reviewed_cards has returned its field maps to main().
Returned ==
    \/ pc \in {"inline", "render", "open"}
    \/ pc = "exit" /\ exit \notin {"SchemaNotFound", "EmptySelection"}

\* A review event passes the filter of the run.
InFilter(e) == e.id >= last_time_ms /\ (only_forgotten => e.ease = 1)

\* The number of values the raw field string holds: one more than separators.
NumValues(raw) == 1 + Cardinality({i \in DOMAIN raw : raw[i] = FIELD_SEP})

RECURSIVE JoinValues(_)
JoinValues(od) ==
    IF od = <<>> THEN <<>>
    ELSE IF Len(od) = 1 THEN od[1].v
    ELSE od[1].v \o <<FIELD_SEP>> \o JoinValues(Tail(od))

\* C1: the notes the selector returns for the bound last_time_ms are exactly
\* the notes of the target model that own a card with a review event whose id
\* is >= the bound and, when only_forgotten is set, whose ease is 1.
C1_SelectedNotes ==
    Returned =>
        Range(rows) =
            {n \in notes :
                /\ n.mid = TargetModel.id
                /\ \E c \in Cards : /\ c.nid = n.id
                                    /\ \E e \in revlog : e.cid = c.id /\ InFilter(e)}

\* Scenario C: forgotten only, one Kanji note selected and another one left
\* out although a card of it was reviewed in the window with another outcome.
C1_Witness ==
    /\ Returned /\ only_forgotten /\ rows # <<>>
    /\ \E n \in notes, c \in Cards, e \in revlog :
          /\ n.mid = TargetModel.id /\ c.nid = n.id /\ e.cid = c.id
          /\ e.id >= last_time_ms /\ e.ease # 1
          /\ n \notin Range(rows)

\* C2: when the target model exists and no review event passes the filter, the
\* run ends with the Empty-selection error and never reaches the inliner or
\* the renderer: the output file keeps its old content, no viewer is launched.
C2_EmptySelectionAborts ==
    (/\ pc \notin {"window", "resolve"}
     /\ TargetExists
     /\ \A e \in revlog : ~InFilter(e))
    => /\ pc \in {"revlog", "exit"}
       /\ pc = "exit" => exit = "EmptySelection"
       /\ note_fields = <<>> /\ idx = 0
       /\ outFile = OldFile
       /\ viewer = "none"

\* The run ended with Empty-selection although the log holds an event in the
\* window: the forgotten-only filter removed it.
C2_Witness ==
    /\ pc = "exit" /\ exit = "EmptySelection"
    /\ outFile = OldFile /\ viewer = "none"
    /\ \E e \in revlog : e.id >= last_time_ms

\* C3: a selected note whose raw field string splits into a number of values
\* other than the number of field names ends the run in a Schema-mismatch
\* error: no field map is produced for it and no worksheet is written.
C3_SchemaMismatchFatal ==
    \A j \in DOMAIN rows :
        NumValues(rows[j].flds) # Len(field_names)
        => /\ j \notin DOMAIN note_fields
           /\ outFile = OldFile
           /\ pc = "exit" /\ exit = "SchemaMismatch"

\* C4: once the output file is written, a failed viewer launch (a non-zero
\* status, or a command that cannot be started) is ignored: the run ends
\* normally and the written file stays.
C4_ViewerFailureIgnored ==
    viewer \in {"nonzero", "oserror"}
    => /\ pc = "exit" /\ exit = "ok"
       /\ outFile = Render(note_fields)

\* C5 as stated: the bound is the current time minus (24*days - 16) hours.
C5_SixteenHoursShorter ==
    pc # "window"
    => last_time_ms = RoundHalf(nowHalf) - (24 * days - 16) * 3600 * 1000

\* C5, amended: the bound is the current time, rounded to the millisecond,
\* minus (24*days - 8) hours: a window 8 hours shorter than days full days,
\* which is 16 hours for the default of one day.
C5_EightHoursShorter ==
    pc # "window"
    => last_time_ms = RoundHalf(nowHalf) - (24 * days - 8) * 3600 * 1000

\* The default look-back of one day gave a bound 16 hours before now.
C5_Witness ==
    /\ pc # "window" /\ days = 1
    /\ last_time_ms = RoundHalf(nowHalf) - 16 * HourMs

\* C6: when the mapping holds a model named TargetName, the resolver selects
\* it wherever it stands, and field_names is the names of its field
\* descriptors in ascending ord, whatever their order in the mapping.
C6_Resolver ==
    (/\ pc \notin {"window", "resolve"}
     /\ TargetExists)
    => /\ exit # "SchemaNotFound"
       /\ model = TargetModel
       /\ Len(field_names) = Len(model.flds)
       /\ \A i \in DOMAIN model.flds :
             field_names[1 + Cardinality({j \in DOMAIN model.flds :
                                             model.flds[j].ord < model.flds[i].ord})]
                = model.flds[i].name

\* The target model resolved from behind another model, its descriptors
\* stored out of ord order.
C6_Witness ==
    /\ pc = "revlog"
    /\ Len(models) >= 2 /\ models[1].name # TargetName
    /\ model.name = TargetName
    /\ \E i, j \in DOMAIN model.flds : i < j /\ model.flds[i].ord > model.flds[j].ord

\* C7: for a selected note whose raw field string holds exactly N values, N the
\* number of field names, the decoded map has N entries, the i-th keyed by the
\* i-th field name and holding the i-th value: no value holds a separator and
\* the values joined by the separator give the raw string back.
C7_Decoder ==
    (pc = "inline" /\ idx = 1 /\ pass = 1)
    => \A j \in DOMAIN rows :
          NumValues(rows[j].flds) = Len(field_names)
          => /\ Len(note_fields[j]) = Len(field_names)
             /\ \A i \in DOMAIN field_names :
                   /\ note_fields[j][i].k = field_names[i]
                   /\ FIELD_SEP \notin Range(note_fields[j][i].v)
             /\ JoinValues(note_fields[j]) = rows[j].flds

\* Two notes decoded against the three field names, both with three values.
C7_Witness ==
    /\ pc = "inline" /\ idx = 1 /\ pass = 1
    /\ Len(rows) = 2 /\ Len(field_names) = 3
    /\ \A j \in DOMAIN rows : NumValues(rows[j].flds) = 3

\* C8: a second run of inline_data_images on field maps already inlined leaves
\* every strokeDiagram value as the first run left it, whether the run ends in
\* an error or not.
C8_NoDoubleEncode ==
    pass = 2
    => /\ Len(note_fields) = Len(first_pass)
       /\ \A j \in DOMAIN note_fields :
             GetItem(note_fields[j], StrokeKey) = GetItem(first_pass[j], StrokeKey)

\* The second run over two inlined notes ended in the error of the missing
\* file named by the data URI.
C8_Witness ==
    /\ pass = 2 /\ pc = "exit" /\ exit = "IOError"
    /\ Len(note_fields) = 2
    /\ \A j \in DOMAIN note_fields :
          GetItem(note_fields[j], StrokeKey)[2] = DataPrefix

\* The field map of the j-th selected note before the inliner ran.
Decoded(j) == Decode(field_names, rows[j])

\* The j-th selected note names an image file, and whether the file exists.
NamesImage(j) ==
    /\ HasKey(Decoded(j), StrokeKey)
    /\ fromstring(GetItem(Decoded(j), StrokeKey)).ok
    /\ fromstring(GetItem(Decoded(j), StrokeKey)).hasSrc

ImageMissing(j) ==
    /\ NamesImage(j)
    /\ PathJoin(MediaDir, fromstring(GetItem(Decoded(j), StrokeKey)).src) \notin media

\* C9: when a selected note's image file is missing the run is aborted: the
\* renderer is not reached, the output file keeps its old content and no viewer
\* is launched; the run ends with the missing-media error at the first such
\* note when the notes before it were inlined, and then the notes before it are
\* the only ones rewritten.
C9_MissingMediaAborts ==
    /\ (Returned /\ \E j \in DOMAIN rows : ImageMissing(j))
       => /\ pc \in {"inline", "exit"}
          /\ exit \notin {"ok", "OSError"}
          /\ outFile = OldFile
          /\ viewer = "none"
    /\ \A j \in DOMAIN rows :
          (/\ pc = "exit" /\ Returned
           /\ ImageMissing(j)
           /\ \A i \in 1..(j - 1) : NamesImage(i) /\ ~ImageMissing(i))
          => exit = "IOError" /\ idx = j
    /\ exit = "IOError"
       => /\ ImageMissing(idx)
          /\ \A j \in DOMAIN rows :
                IF j < idx
                THEN note_fields[j] # Decoded(j)
                ELSE note_fields[j] = Decoded(j)

\* The second of two notes failed for its missing file after the first one
\* was rewritten.
C9_Witness ==
    /\ pc = "exit" /\ exit = "IOError" /\ idx = 2
    /\ GetItem(note_fields[1], StrokeKey)[2] = DataPrefix
    /\ outFile = OldFile /\ viewer = "none"

\* The card ids of the review events that pass the filter.
ReviewedCards == {e.cid : e \in {q \in revlog : InFilter(q)}}

\* C10: the Empty-selection error is raised exactly when no card id is collected
\* from the matching review events; when card ids are collected and no note of
\* the target model owns one of them, that error is not raised, nothing fails
\* before the write, and the worksheet written is the one rendered from no notes.
C10_EmptyOnlyWithoutCards ==
    (pc \notin {"window", "resolve", "revlog"} /\ exit # "SchemaNotFound")
    => /\ exit = "EmptySelection" <=> ReviewedCards = {}
       /\ (/\ ReviewedCards # {}
           /\ ~\E n \in notes, c \in Cards :
                  n.mid = model.id /\ c.nid = n.id /\ c.id \in ReviewedCards)
          => /\ exit \in {"running", "ok", "OSError"}
             /\ pc \notin {"notes"} => rows = <<>> /\ note_fields = <<>>
             /\ pc \in {"open", "exit"} => outFile = Render(<<>>)

\* Only a card of another model was reviewed: the run wrote the worksheet of
\* no notes.
C10_Witness ==
    /\ pc = "exit" /\ exit = "ok"
    /\ card_ids # {} /\ rows = <<>>
    /\ outFile = Render(<<>>)

====
